---- MODULE Spec2Model ----
(***************************************************************************)
(* Verification development of the sso service: the verification-code      *)
(* lifecycle (internal/services/verification), the request facade          *)
(* (internal/grpc/auth) and the sqlite store (internal/storage/sqlite).    *)
(*                                                                         *)
(* Every SQL statement is one atomic step; a request is a sequence of such *)
(* steps, interleaved freely with the steps of the other requests.         *)
(***************************************************************************)
EXTENDS Integers, FiniteSets, Sequences, TLC

\* ------------------------------------------------------------------ bounds
MaxTime == 2          \* the clock runs over 1..MaxTime

Procs == {"p1", "p2"}
Emails == {"a", "b"}
Codes == {"c1", "c2"}
Passwords == {"pw1", "pw2"}

\* 0 is the zero time.Time
Expiries == 1..MaxTime

\* ------------------------------------------------------------------ errors
OK == "OK"
ErrUserExists == "ErrUserExists"
ErrUserNotFound == "ErrUserNotFound"
ErrVerificationNotFound == "ErrVerificationNotFound"
ErrVerificationExpired == "ErrVerificationExpired"
EmptyEmail == "EmptyEmail"
EmptyCode == "EmptyCode"
EmptyExpiresAt == "EmptyExpiresAt"
CodesDiffer == "CodesDiffer"
ErrPassAreEqual == "ErrPassAreEqual"
ErrInvalidCredentials == "ErrInvalidCredentials"
\* errors of the driver that the store wraps without naming them
ErrConstraintPrimaryKey == "sqlite3.ErrConstraintPrimaryKey"
ErrConstraintForeignKey == "sqlite3.ErrConstraintForeignKey"
ErrInfra == "context canceled"
ErrAppNotFound == "ErrAppNotFound"
\* the error of e.Send
ErrDelivery == "smtp error"

\* ------------------------------------------------------------- configuration
\* verificationExpiresAfterHours of serverAPI, in ticks of the clock
ExpiresAfterHours == 1
\* token_ttl, in ticks of the clock
TokenTTL == 1
\* the rows of table apps, which the service only reads
Apps == [id \in {1} |-> [name |-> "app", secret |-> "secret"]]
AppIds == {0, 1, 2}

\* ------------------------------------------------------------------ values
\* models.VerificationData{}: what Storage.Verification returns with an error
ZeroVerification == [Email |-> "", Code |-> "", ExpiresAt |-> 0]
\* models.User{}
ZeroUser == [ID |-> 0, Email |-> "", PassHash |-> <<>>, Verified |-> FALSE]
\* no token: the claims of the token Login signs are uid, email, app_id, exp
ZeroToken == [uid |-> 0, email |-> "", app_id |-> 0, exp |-> 0]

\* bcrypt.GenerateFromPassword / bcrypt.CompareHashAndPassword
Hash(password) == <<"bcrypt", password>>
CompareHashAndPassword(hash, password) == hash = Hash(password)

\* time.Time.Before
Before(t, u) == t < u
\* time.Time.IsZero
IsZero(t) == t = 0

\* fmt.Sprintf("%v", id) of an int64 that is not negative: its decimal digits
Digits == <<"0", "1", "2", "3", "4", "5", "6", "7", "8", "9">>

RECURSIVE Sprintf(_)
Sprintf(id) ==
  IF id < 10 THEN Digits[id + 1]
  ELSE Sprintf(id \div 10) \o Digits[(id % 10) + 1]

\* ------------------------------------------------------------------ store
\* The users table is a function from the email to the rest of the row. The
\* verifications table is a set of rows, each with the rowid sqlite gave it.

\* INSERT INTO users(email, pass_hash): ids are assigned 1, 2, ... and users
\* are never deleted; is_verified takes its default.
SqlSaveUserReplace(tbl, email, passHash) ==
  [users |-> [e \in DOMAIN tbl \cup {email} |->
                IF e = email
                THEN [id |-> Cardinality(DOMAIN tbl) + 1,
                      pass_hash |-> passHash, is_verified |-> FALSE]
                ELSE tbl[e]],
   id |-> Cardinality(DOMAIN tbl) + 1, err |-> OK]

SqlSaveUser(tbl, email, passHash) ==
  IF email \in DOMAIN tbl
  THEN [users |-> tbl, id |-> 0, err |-> ErrUserExists]
  ELSE [users |-> [e \in DOMAIN tbl \cup {email} |->
                     IF e = email
                     THEN [id |-> Cardinality(DOMAIN tbl) + 1,
                           pass_hash |-> passHash, is_verified |-> FALSE]
                     ELSE tbl[e]],
        id |-> Cardinality(DOMAIN tbl) + 1, err |-> OK]

\* UPDATE users SET email = ?, pass_hash = ?, is_verified = ? WHERE email = ?
\* (an update that matches no row is not an error)
SqlUpdateUserNoHash(tbl, user, passHash) ==
  [users |-> [e \in DOMAIN tbl |->
                IF e = user.Email
                THEN [tbl[e] EXCEPT !.is_verified = user.Verified]
                ELSE tbl[e]],
   err |-> OK]

SqlUpdateUser(tbl, user, passHash) ==
  [users |-> [e \in DOMAIN tbl |->
                IF e = user.Email
                THEN [tbl[e] EXCEPT !.pass_hash = passHash,
                                    !.is_verified = user.Verified]
                ELSE tbl[e]],
   err |-> OK]

\* UPDATE users SET is_verified = true WHERE email = ?
\* (an update that matches no row is not an error); the id returned is
\* res.LastInsertId(), the rowid of the connection's last INSERT
SqlVerifyUserNoop(tbl, email, last) ==
  [users |-> tbl, id |-> last, err |-> OK]

SqlVerifyUser(tbl, email, last) ==
  [users |-> [e \in DOMAIN tbl |->
                IF e = email THEN [tbl[e] EXCEPT !.is_verified = TRUE]
                ELSE tbl[e]],
   id |-> last, err |-> OK]

\* SELECT id, email, pass_hash FROM users WHERE email = ?
\* (is_verified is not selected: Verified keeps its zero value)
SqlUserNoHash(tbl, email) ==
  IF email \in DOMAIN tbl
  THEN [user |-> [ID |-> tbl[email].id, Email |-> email,
                  PassHash |-> <<>>, Verified |-> FALSE],
        err |-> OK]
  ELSE [user |-> ZeroUser, err |-> ErrUserNotFound]

SqlUser(tbl, email) ==
  IF email \in DOMAIN tbl
  THEN [user |-> [ID |-> tbl[email].id, Email |-> email,
                  PassHash |-> tbl[email].pass_hash, Verified |-> FALSE],
        err |-> OK]
  ELSE [user |-> ZeroUser, err |-> ErrUserNotFound]

\* SELECT id, name, secret FROM apps WHERE id = ?
SqlApp(tbl, id) ==
  IF id \in DOMAIN tbl
  THEN [app |-> [ID |-> id, Name |-> tbl[id].name, Secret |-> tbl[id].secret],
        err |-> OK]
  ELSE [app |-> [ID |-> 0, Name |-> "", Secret |-> ""],
        err |-> ErrAppNotFound]

\* the rows of an email in the verifications table
RowsOf(tbl, email) == {row \in tbl : row.email = email}

\* the rowid sqlite gives the next row: one more than the largest in use
NextRowid(tbl) ==
  IF tbl = {} THEN 1
  ELSE 1 + CHOOSE n \in {row.rowid : row \in tbl} :
             \A row \in tbl : row.rowid <= n

\* INSERT INTO verifications(email, code, expiresAt): email is the primary
\* key; the foreign key to users(email) is checked only when the connection
\* enforces foreign keys. Neither violation has the extended code
\* ErrConstraintUnique, so both are wrapped as they are.
SqlStoreVerificationNoKey(tbl, usersTbl, fkOn, email, code, expiresAt) ==
  IF fkOn /\ email \notin DOMAIN usersTbl
  THEN [verifications |-> tbl, id |-> 0, err |-> ErrConstraintForeignKey]
  ELSE [verifications |->
          tbl \cup {[rowid |-> NextRowid(tbl), email |-> email,
                     code |-> code, expiresAt |-> expiresAt]},
        id |-> NextRowid(tbl), err |-> OK]

SqlStoreVerification(tbl, usersTbl, fkOn, email, code, expiresAt) ==
  IF RowsOf(tbl, email) # {}
  THEN [verifications |-> tbl, id |-> 0, err |-> ErrConstraintPrimaryKey]
  ELSE IF fkOn /\ email \notin DOMAIN usersTbl
  THEN [verifications |-> tbl, id |-> 0, err |-> ErrConstraintForeignKey]
  ELSE [verifications |->
          tbl \cup {[rowid |-> NextRowid(tbl), email |-> email,
                     code |-> code, expiresAt |-> expiresAt]},
        id |-> NextRowid(tbl), err |-> OK]

\* SELECT * FROM verifications WHERE email = ? (QueryRow: the first row)
SqlVerification(tbl, email) ==
  IF RowsOf(tbl, email) # {}
  THEN LET row == CHOOSE r \in RowsOf(tbl, email) :
                    \A o \in RowsOf(tbl, email) : r.rowid <= o.rowid
       IN [verification |-> [Email |-> row.email, Code |-> row.code,
                             ExpiresAt |-> row.expiresAt],
           err |-> OK]
  ELSE [verification |-> ZeroVerification, err |-> ErrVerificationNotFound]

\* DELETE from verifications WHERE email = ? (the result is not inspected)
SqlDeleteVerificationStrict(tbl, email) ==
  IF RowsOf(tbl, email) # {}
  THEN [verifications |-> tbl \ RowsOf(tbl, email), err |-> OK]
  ELSE [verifications |-> tbl, err |-> ErrVerificationNotFound]

SqlDeleteVerificationNoop(tbl, email) ==
  [verifications |-> tbl, err |-> OK]

SqlDeleteVerificationAll(tbl, email) ==
  [verifications |-> {}, err |-> OK]

SqlDeleteVerification(tbl, email) ==
  [verifications |-> tbl \ RowsOf(tbl, email), err |-> OK]

\* ------------------------------------------------------------------ state
VARIABLES
  users,          \* table users: email -> [id, pass_hash, is_verified]
  verifications,  \* table verifications: rows [rowid, email, code, expiresAt]
  lastInsertId,   \* sqlite3_last_insert_rowid of the connection
  foreignKeys,    \* whether the sqlite connection enforces foreign keys
  now,            \* time.Now()
  proc            \* per request: the handler's position and locals

vars == <<users, verifications, lastInsertId, foreignKeys, now, proc>>

\* a request that has not arrived yet
IdleProc ==
  [flow |-> "", op |-> "", pc |-> "idle", email |-> "", code |-> "",
   expiresAt |-> 0, del |-> FALSE, password |-> "", appID |-> 0,
   token |-> ZeroToken,
   verification |-> ZeroVerification, user |-> ZeroUser, checkedAt |-> 0,
   result |-> "", err |-> OK, status |-> "", failed |-> FALSE, after |-> FALSE]

Running(r) == r.pc \notin {"idle", "done"}

\* ------------------------------------------------------------------ facade
\* What a handler of serverAPI does when the service call `op` has returned
\* `err`: the next service call, or the status it answers with.
Call(op) == [call |-> op, status |-> ""]
Answer(status) == [call |-> "", status |-> status]

validateVerificationResult(err) ==
  IF err = OK THEN "OK"
  ELSE IF err = ErrVerificationNotFound THEN "NotFound"
  ELSE IF err = ErrVerificationExpired THEN "Internal"
  ELSE IF err = CodesDiffer THEN "PermissionDenied"
  ELSE "Internal"

ResetPasswordNextAlwaysDelete(op, err) ==
  CASE op = "Verify" ->
         IF err = OK THEN Call("UpdateUser")
         ELSE Answer(validateVerificationResult(err))
    [] op = "UpdateUser" -> Call("DeleteVerification")
    [] OTHER ->
         IF err = OK THEN Answer("OK") ELSE Answer("Internal")

ResetPasswordNext(op, err) ==
  CASE op = "Verify" ->
         IF err = OK THEN Call("UpdateUser")
         ELSE Answer(validateVerificationResult(err))
    [] op = "UpdateUser" ->
         IF err = OK THEN Call("DeleteVerification")
         ELSE IF err = ErrPassAreEqual THEN Answer("InvalidArgument")
         ELSE Answer("Internal")
    [] OTHER ->
         IF err = OK THEN Answer("OK") ELSE Answer("Internal")

\* serverAPI.Register
RegisterNext(op, err) ==
  CASE op = "RegisterNewUser" ->
         IF err = OK THEN Call("StoreVerification")
         ELSE IF err = ErrUserExists THEN Answer("AlreadyExists")
         ELSE Answer("Internal")
    [] op = "StoreVerification" ->
         IF err = OK THEN Call("SendEmail") ELSE Answer("Internal")
    [] OTHER ->
         IF err = OK THEN Answer("OK") ELSE Answer("Internal")

\* serverAPI.CreateVerification
CreateVerificationNext(op, err) ==
  CASE op = "StoreVerification" ->
         IF err = OK THEN Call("SendEmail")
         ELSE IF err = ErrUserNotFound THEN Answer("NotFound")
         ELSE Answer("Internal")
    [] OTHER ->
         IF err = OK THEN Answer("OK") ELSE Answer("Internal")

\* serverAPI.VerifyMail
VerifyMailNext(op, err) == Answer(validateVerificationResult(err))

\* serverAPI.Login
LoginNext(op, err) ==
  IF err = OK THEN Answer("OK")
  ELSE IF err = ErrInvalidCredentials THEN Answer("InvalidArgument")
  ELSE Answer("Internal")

\* a service called directly answers with its own error
Facade(flow, op, err) ==
  CASE flow = "ResetPassword" -> ResetPasswordNext(op, err)
    [] flow = "Register" -> RegisterNext(op, err)
    [] flow = "CreateVerification" -> CreateVerificationNext(op, err)
    [] flow = "VerifyMail" -> VerifyMailNext(op, err)
    [] flow = "Login" -> LoginNext(op, err)
    [] OTHER -> Answer("")

\* ---------------------------------------------------------------- services
\* The input validation a service operation does before its first store
\* call: OK, or the error it returns at once.
StoreVerificationCheckCodeFirst(email, code, expiresAt) ==
  IF code = "" THEN EmptyCode
  ELSE IF email = "" THEN EmptyEmail
  ELSE IF IsZero(expiresAt) THEN EmptyExpiresAt
  ELSE OK

StoreVerificationCheck(email, code, expiresAt) ==
  IF email = "" THEN EmptyEmail
  ELSE IF code = "" THEN EmptyCode
  ELSE IF IsZero(expiresAt) THEN EmptyExpiresAt
  ELSE OK

VerifyCheck(email, code) ==
  IF email = "" THEN EmptyEmail
  ELSE IF code = "" THEN EmptyCode
  ELSE OK

DeleteVerificationCheck(email) ==
  IF email = "" THEN EmptyEmail ELSE OK

\* auth.UpdateUser rejects empty credentials
UpdateUserCheck(email, password) ==
  IF email = "" \/ password = "" THEN ErrInvalidCredentials ELSE OK

\* auth.RegisterNewUser and auth.Login reject empty credentials
RegisterNewUserCheck(email, password) ==
  IF email = "" \/ password = "" THEN ErrInvalidCredentials ELSE OK

LoginCheck(email, password) ==
  IF email = "" \/ password = "" THEN ErrInvalidCredentials ELSE OK

Check(op, r) ==
  CASE op = "StoreVerification" ->
         StoreVerificationCheck(r.email, r.code, r.expiresAt)
    [] op = "Verify" -> VerifyCheck(r.email, r.code)
    [] op = "DeleteVerification" -> DeleteVerificationCheck(r.email)
    [] op = "UpdateUser" -> UpdateUserCheck(r.email, r.password)
    [] op = "RegisterNewUser" -> RegisterNewUserCheck(r.email, r.password)
    [] op = "Login" -> LoginCheck(r.email, r.password)
    [] OTHER -> OK

\* the first store call of a service operation
FirstPc(op) ==
  CASE op = "StoreVerification" -> "StoreVerification_insert"
    [] op = "Verify" -> "Verify_fetch"
    [] op = "DeleteVerification" -> "DeleteVerification_delete"
    [] op = "UpdateUser" -> "UpdateUser_fetch"
    [] op = "RegisterNewUser" -> "RegisterNewUser_save"
    [] op = "Login" -> "Login_user"
    [] OTHER -> "SendEmail_send"

\* the arguments a handler of serverAPI passes to the service: the expiry
\* of a new record is time.Now() plus the configured hours
Args(r, op) ==
  IF op = "StoreVerification" /\ r.flow # "Direct"
  THEN [r EXCEPT !.op = op, !.expiresAt = now + ExpiresAfterHours]
  ELSE [r EXCEPT !.op = op]

RECURSIVE Enter(_, _)
RECURSIVE Returned(_, _)

\* the handler of request r calls service operation op
Enter(r, op) ==
  LET r1 == Args(r, op) IN
  IF Check(op, r1) = OK
  THEN [r1 EXCEPT !.pc = FirstPc(op)]
  ELSE Returned(r1, Check(op, r1))

\* service operation r.op of request r returns err
Returned(r, err) ==
  LET r1 == [r EXCEPT !.err = err]
      d == Facade(r.flow, r.op, err)
  IN IF d.call = ""
     THEN [r1 EXCEPT !.pc = "done", !.status = d.status]
     ELSE Enter(r1, d.call)

\* --------------------------------------------------------------- requests
\* The database the requests find: users registered earlier, in the order
\* of Emails and not yet verified, and pending records stored earlier; a
\* record of an unregistered email only where foreign keys are not enforced.
RegistrationOrder == <<"a", "b">>

Registered(n) ==
  [e \in {RegistrationOrder[i] : i \in 1..n} |->
     [id |-> CHOOSE i \in 1..n : RegistrationOrder[i] = e,
      pass_hash |-> Hash("pw1"), is_verified |-> FALSE]]

UserTables == {Registered(n) : n \in 0..Len(RegistrationOrder)}

\* the rows of records stored in the order of registration
StoredEarlier(f) ==
  {[rowid |-> Cardinality({d \in DOMAIN f :
                             \E i, j \in 1..Len(RegistrationOrder) :
                               /\ RegistrationOrder[i] = d
                               /\ RegistrationOrder[j] = e
                               /\ i <= j}),
    email |-> e, code |-> f[e].code, expiresAt |-> f[e].expiresAt] :
     e \in DOMAIN f}

VerificationTables ==
  {StoredEarlier(f) :
     f \in UNION {[S -> [code : {"c1"}, expiresAt : Expiries]] :
                   S \in SUBSET Emails}}

Init ==
  /\ users \in UserTables
  /\ verifications \in VerificationTables
  /\ foreignKeys \in BOOLEAN
  /\ foreignKeys => \A row \in verifications : row.email \in DOMAIN users
  /\ lastInsertId = 0
  /\ now = 1
  /\ proc = [p \in Procs |-> IdleProc]

Request(flow, email, code, expiresAt, del, password) ==
  [IdleProc EXCEPT !.flow = flow, !.email = email, !.code = code,
                   !.expiresAt = expiresAt, !.del = del,
                   !.password = password]

\* request p arrives and its handler runs up to the first store call;
\* `after` records that it arrived after another request had been answered
Begin(p, r, op) ==
  /\ proc[p].pc = "idle"
  /\ proc' = [proc EXCEPT ![p] =
                [Enter(r, op) EXCEPT !.after =
                   \E q \in Procs \ {p} : proc[q].pc = "done"]]
  /\ UNCHANGED <<users, verifications, lastInsertId, foreignKeys, now>>

\* a facade handler refuses a request with a missing field
Refuse(p, r) ==
  /\ proc[p].pc = "idle"
  /\ proc' = [proc EXCEPT ![p] =
                [r EXCEPT !.pc = "done", !.status = "InvalidArgument",
                          !.after = \E q \in Procs \ {p} :
                                       proc[q].pc = "done"]]
  /\ UNCHANGED <<users, verifications, lastInsertId, foreignKeys, now>>

\* The requests are about one email; the other emails are bystanders whose
\* rows no request may touch.
RequestEmails == {"a"}

\* The arguments of the calls: every valid combination, and for each
\* validation the combinations that reach it with a missing value.
StoreVerificationInputs ==
  (RequestEmails \X Codes \X Expiries)
    \cup {<<"", "", 0>>, <<"", "c1", 1>>, <<"a", "", 0>>, <<"a", "", 1>>,
          <<"a", "c1", 0>>}

VerifyInputs ==
  (RequestEmails \X Codes \X BOOLEAN)
    \cup {<<"", "", TRUE>>, <<"", "c1", TRUE>>, <<"a", "", TRUE>>}

DeleteVerificationInputs == RequestEmails \cup {""}

ResetPasswordInputs ==
  (RequestEmails \X Codes \X Passwords)
    \cup {<<"", "c1", "pw1">>, <<"a", "", "pw1">>, <<"a", "c1", "">>}

\* direct calls of the verification service
StoreVerification(p) ==
  \E in \in StoreVerificationInputs :
    Begin(p, Request("Direct", in[1], in[2], in[3], FALSE, ""),
          "StoreVerification")

Verify(p) ==
  \E in \in VerifyInputs :
    Begin(p, Request("Direct", in[1], in[2], 0, in[3], ""), "Verify")

DeleteVerification(p) ==
  \E email \in DeleteVerificationInputs :
    Begin(p, Request("Direct", email, "", 0, FALSE, ""), "DeleteVerification")

\* serverAPI.ResetPassword
ResetPassword(p) ==
  \E in \in ResetPasswordInputs :
    LET r == Request("ResetPassword", in[1], in[2], 0, FALSE, in[3]) IN
    IF in[1] = "" \/ in[2] = "" \/ in[3] = ""
    THEN Refuse(p, r) ELSE Begin(p, r, "Verify")

RegisterInputs ==
  (RequestEmails \X Passwords \X Codes)
    \cup {<<"", "pw1", "c1">>, <<"a", "", "c1">>}

CreateVerificationInputs == (RequestEmails \X Codes) \cup {<<"", "c1">>}

VerifyMailInputs ==
  (RequestEmails \X Codes) \cup {<<"", "c1">>, <<"a", "">>}

LoginInputs ==
  (RequestEmails \X Passwords \X AppIds)
    \cup {<<"", "pw1", 1>>, <<"a", "", 1>>}

RegisterNewUserInputs ==
  (RequestEmails \X Passwords) \cup {<<"", "pw1">>, <<"a", "">>}

\* serverAPI.Register; in[3] is the code GenerateRandomString will return
Register(p) ==
  \E in \in RegisterInputs :
    LET r == Request("Register", in[1], in[3], 0, FALSE, in[2]) IN
    IF in[1] = "" \/ in[2] = ""
    THEN Refuse(p, r) ELSE Begin(p, r, "RegisterNewUser")

\* serverAPI.CreateVerification; in[2] is the code GenerateRandomString
\* will return
CreateVerification(p) ==
  \E in \in CreateVerificationInputs :
    LET r == Request("CreateVerification", in[1], in[2], 0, FALSE, "") IN
    IF in[1] = "" THEN Refuse(p, r) ELSE Begin(p, r, "StoreVerification")

\* serverAPI.VerifyMail
VerifyMail(p) ==
  \E in \in VerifyMailInputs :
    LET r == Request("VerifyMail", in[1], in[2], 0, TRUE, "") IN
    IF in[1] = "" \/ in[2] = "" THEN Refuse(p, r) ELSE Begin(p, r, "Verify")

\* serverAPI.Login
Login(p) ==
  \E in \in LoginInputs :
    LET r == [Request("Login", in[1], "", 0, FALSE, in[2])
                EXCEPT !.appID = in[3]] IN
    IF in[1] = "" \/ in[2] = "" \/ in[3] = 0
    THEN Refuse(p, r) ELSE Begin(p, r, "Login")

\* a direct call of auth.RegisterNewUser
RegisterNewUser(p) ==
  \E in \in RegisterNewUserInputs :
    Begin(p, Request("Direct", in[1], "", 0, FALSE, in[2]), "RegisterNewUser")

\* ------------------------------------------------------------ store steps
\* request p moves to r; the tables change as given and the connection
\* remembers the rowid of an insert
Inserted(p, r, newUsers, newVerifications, rowid) ==
  /\ proc' = [proc EXCEPT ![p] = r]
  /\ users' = newUsers
  /\ verifications' = newVerifications
  /\ lastInsertId' = rowid
  /\ UNCHANGED <<foreignKeys, now>>

Step(p, r, newUsers, newVerifications) ==
  Inserted(p, r, newUsers, newVerifications, lastInsertId)

\* a store call that fails without effect (cancelled context, driver error)
Failed(r) == [r EXCEPT !.failed = TRUE]

\* Verification.StoreVerification: the insert
StoreVerification_insert(p) ==
  /\ proc[p].pc = "StoreVerification_insert"
  /\ LET r == proc[p] IN
     \/ Step(p, Returned(Failed(r), ErrInfra), users, verifications)
     \/ LET res == SqlStoreVerification(verifications, users, foreignKeys,
                                        r.email, r.code, r.expiresAt)
        IN Inserted(p, Returned(r, res.err), users, res.verifications,
                    IF res.err = OK THEN res.id ELSE lastInsertId)

\* server.go:414
CodesMatchAlways(recordCode, code) == TRUE

CodesMatchPresent(recordCode, code) == recordCode # ""

CodesMatch(recordCode, code) == recordCode = code

\* server.go:418
ExpiredNever(expiresAt, t) == FALSE

Expired(expiresAt, t) == Before(expiresAt, t)

\* what Verify does with the record it fetched: the fetch error is logged
\* and the code comparison runs on whatever came back
VerifyFetched(r, res, t) ==
  LET r1 == [r EXCEPT !.verification = res.verification, !.checkedAt = t] IN
  IF ~CodesMatch(res.verification.Code, r.code)
  THEN Returned(r1, CodesDiffer)
  ELSE IF Expired(res.verification.ExpiresAt, t)
  THEN [r1 EXCEPT !.pc = "Verify_expired"]
  ELSE [r1 EXCEPT !.pc = "Verify_verifyUser"]

\* Verification.Verify: fetch the record, compare the code, check the expiry
Verify_fetch(p) ==
  /\ proc[p].pc = "Verify_fetch"
  /\ LET r == proc[p] IN
     \/ Step(p, VerifyFetched(Failed(r), [verification |-> ZeroVerification,
                                          err |-> ErrInfra], now),
             users, verifications)
     \/ Step(p, VerifyFetched(r, SqlVerification(verifications, r.email), now),
             users, verifications)

\* server.go:419-420: what Verify returns after the cleanup delete of an
\* expired record; the error of the delete is dropped
ExpiredResultEscalates(deleteErr) ==
  IF deleteErr # OK THEN deleteErr ELSE ErrVerificationExpired

ExpiredResult(deleteErr) == ErrVerificationExpired

\* Verification.Verify: the cleanup delete of an expired record
Verify_expired(p) ==
  /\ proc[p].pc = "Verify_expired"
  /\ LET r == proc[p] IN
     \/ Step(p, Returned(Failed(r), ExpiredResult(ErrInfra)),
             users, verifications)
     \/ LET res == SqlDeleteVerification(verifications, r.email)
        IN Step(p, Returned(r, ExpiredResult(res.err)),
                users, res.verifications)

\* Verification.Verify: mark the user verified
Verify_verifyUser(p) ==
  /\ proc[p].pc = "Verify_verifyUser"
  /\ LET r == proc[p] IN
     \/ Step(p, Returned(Failed(r), ErrInfra), users, verifications)
     \/ LET res == SqlVerifyUser(users, r.email, lastInsertId)
            r1 == [r EXCEPT !.result = Sprintf(res.id)]
        IN Step(p, IF res.err # OK THEN Returned(r, res.err)
                   ELSE IF r.del THEN [r1 EXCEPT !.pc = "Verify_delete"]
                   ELSE Returned(r1, OK),
                res.users, verifications)

\* Verification.Verify: delete the record after a successful attempt
Verify_delete(p) ==
  /\ proc[p].pc = "Verify_delete"
  /\ LET r == proc[p] IN
     \/ Step(p, Returned(Failed([r EXCEPT !.result = ""]), ErrInfra),
             users, verifications)
     \/ LET res == SqlDeleteVerification(verifications, r.email)
        IN Step(p, Returned(IF res.err = OK THEN r
                            ELSE [r EXCEPT !.result = ""], res.err),
                users, res.verifications)

\* Verification.DeleteVerification: the delete
DeleteVerification_delete(p) ==
  /\ proc[p].pc = "DeleteVerification_delete"
  /\ LET r == proc[p] IN
     \/ Step(p, Returned(Failed(r), ErrInfra), users, verifications)
     \/ LET res == SqlDeleteVerification(verifications, r.email)
        IN Step(p, Returned(r, res.err), users, res.verifications)

\* auth.UpdateUser: fetch the user and compare the passwords
UpdateUser_fetch(p) ==
  /\ proc[p].pc = "UpdateUser_fetch"
  /\ LET r == proc[p] IN
     \/ Step(p, Returned(Failed(r), ErrInfra), users, verifications)
     \/ LET res == SqlUser(users, r.email)
            r1 == [r EXCEPT !.user = res.user]
        IN Step(p, IF res.err # OK THEN Returned(r1, res.err)
                   ELSE IF CompareHashAndPassword(res.user.PassHash,
                                                  r.password)
                   THEN Returned(r1, ErrPassAreEqual)
                   ELSE [r1 EXCEPT !.pc = "UpdateUser_update"],
                users, verifications)

\* auth.UpdateUser: store the new hash and set the user verified
UpdateUser_update(p) ==
  /\ proc[p].pc = "UpdateUser_update"
  /\ LET r == proc[p] IN
     \/ Step(p, Returned(Failed(r), ErrInfra), users, verifications)
     \/ LET res == SqlUpdateUser(users, [r.user EXCEPT !.Verified = TRUE],
                                 Hash(r.password))
        IN Step(p, Returned(r, res.err), res.users, verifications)

\* auth.RegisterNewUser: hash the password and insert the user
RegisterNewUser_save(p) ==
  /\ proc[p].pc = "RegisterNewUser_save"
  /\ LET r == proc[p] IN
     \/ Step(p, Returned(Failed(r), ErrInfra), users, verifications)
     \/ LET res == SqlSaveUser(users, r.email, Hash(r.password))
        IN Inserted(p, Returned(r, res.err), res.users, verifications,
                    IF res.err = OK THEN res.id ELSE lastInsertId)

\* GmailSender.SendEmail: the delivery fails or succeeds
SendEmail_send(p) ==
  /\ proc[p].pc = "SendEmail_send"
  /\ LET r == proc[p] IN
     \/ Step(p, Returned(r, ErrDelivery), users, verifications)
     \/ Step(p, Returned(r, OK), users, verifications)

\* auth.Login: fetch the user and compare the password with the hash; an
\* unknown user is reported as invalid credentials
Login_user(p) ==
  /\ proc[p].pc = "Login_user"
  /\ LET r == proc[p] IN
     \/ Step(p, Returned(Failed(r), ErrInfra), users, verifications)
     \/ LET res == SqlUser(users, r.email)
            r1 == [r EXCEPT !.user = res.user]
        IN Step(p, IF res.err = ErrUserNotFound
                   THEN Returned(r1, ErrInvalidCredentials)
                   ELSE IF res.err # OK THEN Returned(r1, res.err)
                   ELSE IF ~CompareHashAndPassword(res.user.PassHash,
                                                   r.password)
                   THEN Returned(r1, ErrInvalidCredentials)
                   ELSE [r1 EXCEPT !.pc = "Login_app"],
                users, verifications)

\* auth.Login: fetch the app and sign the token
Login_app(p) ==
  /\ proc[p].pc = "Login_app"
  /\ LET r == proc[p] IN
     \/ Step(p, Returned(Failed(r), ErrInfra), users, verifications)
     \/ LET res == SqlApp(Apps, r.appID)
        IN Step(p, IF res.err # OK THEN Returned(r, res.err)
                   ELSE Returned([r EXCEPT !.token =
                                    [uid |-> r.user.ID,
                                     email |-> r.user.Email,
                                     app_id |-> res.app.ID,
                                     exp |-> now + TokenTTL]], OK),
                users, verifications)

\* the answered request leaves and the server takes the next request
Recycle(p) ==
  /\ proc[p].pc = "done"
  /\ proc' = [proc EXCEPT ![p] = IdleProc]
  /\ UNCHANGED <<users, verifications, lastInsertId, foreignKeys, now>>

\* the clock advances
Tick ==
  /\ now < MaxTime
  /\ now' = now + 1
  /\ UNCHANGED <<users, verifications, lastInsertId, foreignKeys, proc>>

Next ==
  \/ \E p \in Procs :
       \/ StoreVerification(p)
       \/ Verify(p)
       \/ DeleteVerification(p)
       \/ ResetPassword(p)
       \/ StoreVerification_insert(p)
       \/ Verify_fetch(p)
       \/ Verify_expired(p)
       \/ Verify_verifyUser(p)
       \/ Verify_delete(p)
       \/ DeleteVerification_delete(p)
       \/ UpdateUser_fetch(p)
       \/ UpdateUser_update(p)
  \/ Tick

Spec == Init /\ [][Next]_vars

\* the handlers of serverAPI that compose the services
NextFacade ==
  \/ \E p \in Procs :
       \/ Register(p)
       \/ CreateVerification(p)
       \/ VerifyMail(p)
       \/ ResetPassword(p)
       \/ RegisterNewUser_save(p)
       \/ StoreVerification_insert(p)
       \/ SendEmail_send(p)
       \/ Verify_fetch(p)
       \/ Verify_expired(p)
       \/ Verify_verifyUser(p)
       \/ Verify_delete(p)
       \/ DeleteVerification_delete(p)
       \/ UpdateUser_fetch(p)
       \/ UpdateUser_update(p)
  \/ Tick

SpecFacade == Init /\ [][NextFacade]_vars

\* registration and login
NextAuth ==
  \/ \E p \in Procs :
       \/ RegisterNewUser(p)
       \/ Login(p)
       \/ RegisterNewUser_save(p)
       \/ Login_user(p)
       \/ Login_app(p)
  \/ Tick

SpecAuth == Init /\ [][NextAuth]_vars

\* any number of direct calls of the verification service, two at a time,
\* for one registered user
InitRace ==
  /\ Init
  /\ users = Registered(1)
  /\ foreignKeys

NextRace ==
  \/ \E p \in Procs :
       \/ StoreVerification(p)
       \/ Verify(p)
       \/ DeleteVerification(p)
       \/ StoreVerification_insert(p)
       \/ Verify_fetch(p)
       \/ Verify_expired(p)
       \/ Verify_verifyUser(p)
       \/ Verify_delete(p)
       \/ DeleteVerification_delete(p)
       \/ Recycle(p)
  \/ Tick

SpecRace == InitRace /\ [][NextRace]_vars

\* A registered user who does not know the code of their pending record
\* (the delivery failed, the mail was lost) asks for a new code, again and
\* again, and tries VerifyMail with codes other than the one they do not
\* know; one request at a time.
Client == CHOOSE p \in Procs : TRUE

InitReissue ==
  /\ Init
  /\ RequestEmails \subseteq DOMAIN users

VerifyMailGuess(p) ==
  /\ VerifyMail(p)
  /\ \A row \in RowsOf(verifications, proc'[p].email) :
       row.code # proc'[p].code

NextReissue ==
  \/ CreateVerification(Client)
  \/ VerifyMailGuess(Client)
  \/ StoreVerification_insert(Client)
  \/ SendEmail_send(Client)
  \/ Verify_fetch(Client)
  \/ Recycle(Client)
  \/ Tick

\* the user keeps asking, and the store and the mail work again and again
FairReissue ==
  /\ WF_vars(Recycle(Client))
  /\ WF_vars(Verify_fetch(Client))
  /\ SF_vars(CreateVerification(Client) /\ proc'[Client].email # "")
  /\ SF_vars(StoreVerification_insert(Client) /\ ~proc'[Client].failed)
  /\ SF_vars(SendEmail_send(Client) /\ proc'[Client].err = OK)

SpecReissue == InitReissue /\ [][NextReissue]_vars /\ FairReissue

\* ----------------------------------------------------------------- claims
Done(p) == proc[p].pc = "done"

\* no other request has arrived
Alone(p) == \A q \in Procs \ {p} : proc[q].pc = "idle"

\* request p was answered before request q arrived
Then(p, q) ==
  /\ p # q
  /\ Done(p)
  /\ ~proc[p].after
  /\ proc[q].pc # "idle"
  /\ proc[q].after

\* requests p and q were in progress at the same time
Concurrent(p, q) ==
  /\ p # q
  /\ proc[p].pc # "idle"
  /\ proc[q].pc # "idle"
  /\ ~proc[p].after
  /\ ~proc[q].after

DirectCall(r, op) == r.flow = "Direct" /\ r.op = op

\* the SELECT of Verify found a row
Fetched(r) == r.verification # ZeroVerification

\* the record Verify fetched carries the supplied code and had not expired
\* when it was checked
Matched(r) ==
  /\ Fetched(r)
  /\ r.verification.Code = r.code
  /\ ~Before(r.verification.ExpiresAt, r.checkedAt)

\* the one record of the email holds this code and expiry
Pending(email, code, expiresAt) ==
  \E row \in verifications :
    /\ RowsOf(verifications, email) = {row}
    /\ row.code = code
    /\ row.expiresAt = expiresAt

\* C1: a successful StoreVerification(email, c1, t1) of a registered email
\* followed, with nothing in between, by StoreVerification(email, c2, t2)
\* also succeeds and leaves exactly the record (c2, t2).
C1_SecondStoreSupersedes ==
  \A p, q \in Procs :
    ( /\ Then(p, q) /\ Done(q)
      /\ DirectCall(proc[p], "StoreVerification") /\ proc[p].err = OK
      /\ DirectCall(proc[q], "StoreVerification")
      /\ proc[q].email = proc[p].email
      /\ proc[q].email \in DOMAIN users
      /\ StoreVerificationCheck(proc[q].email, proc[q].code,
                                proc[q].expiresAt) = OK
      /\ ~proc[q].failed )
    => /\ proc[q].err = OK
       /\ Pending(proc[q].email, proc[q].code, proc[q].expiresAt)

\* C2: Verify for an email that has no pending record fails with
\* VerificationNotFound and with no other error.
C2_VerifyWithoutRecordNotFound ==
  \A p \in Procs :
    ( /\ Done(p)
      /\ proc[p].op = "Verify"
      /\ VerifyCheck(proc[p].email, proc[p].code) = OK
      /\ ~proc[p].failed
      /\ ~Fetched(proc[p]) )
    => proc[p].err = ErrVerificationNotFound

\* C3: Verify(email, code, true) that finds a record with that code, not
\* expired, succeeds, marks the user of the email verified and leaves no
\* pending record for the email.
C3_VerifyConsumes ==
  \A p \in Procs :
    ( /\ Done(p)
      /\ DirectCall(proc[p], "Verify")
      /\ proc[p].del
      /\ Matched(proc[p])
      /\ ~proc[p].failed )
    => /\ proc[p].err = OK
       /\ proc[p].email \in DOMAIN users
            => users[proc[p].email].is_verified
       /\ Alone(p) => RowsOf(verifications, proc[p].email) = {}

C3_Witness ==
  \E p \in Procs :
    /\ Done(p) /\ Alone(p)
    /\ DirectCall(proc[p], "Verify") /\ proc[p].del
    /\ Matched(proc[p]) /\ ~proc[p].failed
    /\ proc[p].err = OK
    /\ proc[p].email \in DOMAIN users
    /\ users[proc[p].email].is_verified
    /\ RowsOf(verifications, proc[p].email) = {}

\* C4: a Verify whose fetch meets an unexpired record with another code
\* returns CodesDiffer in that step and the step changes neither the
\* verifications nor the users, whatever deleteAfterAttempt is.
C4_CodesDifferChangesNothing ==
  [][\A p \in Procs :
       ( /\ proc[p].pc = "Verify_fetch"
         /\ proc'[p] # proc[p]
         /\ \E row \in RowsOf(verifications, proc[p].email) :
              /\ row.code # proc[p].code
              /\ ~Before(row.expiresAt, now) )
       => /\ proc'[p].pc = "done"
          /\ proc'[p].err = CodesDiffer
          /\ verifications' = verifications
          /\ users' = users]_vars

C4_Witness ==
  \E p \in Procs :
    /\ Done(p)
    /\ proc[p].op = "Verify"
    /\ proc[p].err = CodesDiffer
    /\ Fetched(proc[p])
    /\ proc[p].verification.Code # proc[p].code
    /\ ~Before(proc[p].verification.ExpiresAt, proc[p].checkedAt)
    /\ Pending(proc[p].email, proc[p].verification.Code,
               proc[p].verification.ExpiresAt)
    /\ proc[p].email \in DOMAIN users
    /\ ~users[proc[p].email].is_verified

\* C5 as stated: Verify for an email whose pending record has expired fails
\* with VerificationExpired, whatever the code.
C5_ExpiredAlwaysReported ==
  \A p \in Procs :
    ( /\ Done(p)
      /\ proc[p].op = "Verify"
      /\ Fetched(proc[p])
      /\ Before(proc[p].verification.ExpiresAt, proc[p].checkedAt) )
    => proc[p].err = ErrVerificationExpired

\* C5 amended: Verify with the code of the pending record, when that record
\* has expired, fails with VerificationExpired, deletes the record unless the
\* cleanup delete fails, and does not mark the user verified.
C5_ExpiredMatchingCode ==
  \A p \in Procs :
    ( /\ Done(p)
      /\ proc[p].op = "Verify"
      /\ Fetched(proc[p])
      /\ proc[p].verification.Code = proc[p].code
      /\ Before(proc[p].verification.ExpiresAt, proc[p].checkedAt) )
    => /\ proc[p].err = ErrVerificationExpired
       /\ (Alone(p) /\ ~proc[p].failed)
            => /\ RowsOf(verifications, proc[p].email) = {}
               /\ SqlVerification(verifications, proc[p].email).err
                    = ErrVerificationNotFound
       /\ (Alone(p) /\ proc[p].email \in DOMAIN users)
            => ~users[proc[p].email].is_verified

C5_Witness ==
  \E p \in Procs :
    /\ Done(p) /\ Alone(p)
    /\ proc[p].op = "Verify"
    /\ Fetched(proc[p])
    /\ proc[p].verification.Code = proc[p].code
    /\ Before(proc[p].verification.ExpiresAt, proc[p].checkedAt)
    /\ ~proc[p].failed
    /\ proc[p].err = ErrVerificationExpired
    /\ RowsOf(verifications, proc[p].email) = {}
    /\ proc[p].email \in DOMAIN users

\* the user UpdateUser fetched exists and has another password than the
\* new one
NewPassword(r) ==
  /\ r.user # ZeroUser
  /\ ~CompareHashAndPassword(r.user.PassHash, r.password)

\* C6: the password reset (Verify with delete off and the correct unexpired
\* code, UpdateUser with a password other than the current one,
\* DeleteVerification) succeeds at every step and leaves the user verified,
\* the new password stored and no pending record.
C6_ResetPasswordEndToEnd ==
  \A p \in Procs :
    ( /\ Done(p)
      /\ proc[p].flow = "ResetPassword"
      /\ Matched(proc[p])
      /\ NewPassword(proc[p])
      /\ ~proc[p].failed )
    => /\ proc[p].op = "DeleteVerification"
       /\ proc[p].err = OK
       /\ proc[p].status = "OK"
       /\ proc[p].email \in DOMAIN users
       /\ users[proc[p].email].is_verified
       /\ Alone(p)
            => /\ users[proc[p].email].pass_hash = Hash(proc[p].password)
               /\ RowsOf(verifications, proc[p].email) = {}

C6_Witness ==
  \E p \in Procs :
    /\ Done(p) /\ Alone(p)
    /\ proc[p].flow = "ResetPassword"
    /\ Matched(proc[p]) /\ NewPassword(proc[p]) /\ ~proc[p].failed
    /\ proc[p].status = "OK"
    /\ users[proc[p].email].is_verified
    /\ users[proc[p].email].pass_hash = Hash(proc[p].password)
    /\ users[proc[p].email].pass_hash # proc[p].user.PassHash
    /\ RowsOf(verifications, proc[p].email) = {}

\* UpdateUser of request r fails: the user is missing or the password is the
\* current one
UpdateUserFails(r) ==
  \/ r.user = ZeroUser
  \/ CompareHashAndPassword(r.user.PassHash, r.password)

\* C7: when Verify succeeds and UpdateUser then fails, ResetPassword answers
\* with the failure without calling DeleteVerification and the record stays
\* as it was; a later ResetPassword with the same code (and a password, so
\* that the handler calls Verify) fetches that same record and passes the
\* Verify step while the record has not expired.
C7_FailedUpdateKeepsRecord ==
  /\ \A p \in Procs :
       ( /\ Done(p)
         /\ proc[p].flow = "ResetPassword"
         /\ Matched(proc[p])
         /\ UpdateUserFails(proc[p])
         /\ ~proc[p].failed )
       => /\ proc[p].op = "UpdateUser"
          /\ proc[p].err \in {ErrPassAreEqual, ErrUserNotFound}
          /\ proc[p].status \in {"InvalidArgument", "Internal"}
          /\ Alone(p)
               => Pending(proc[p].email, proc[p].verification.Code,
                          proc[p].verification.ExpiresAt)
  /\ \A p, q \in Procs :
       ( /\ Then(p, q)
         /\ proc[p].flow = "ResetPassword" /\ proc[q].flow = "ResetPassword"
         /\ Matched(proc[p]) /\ UpdateUserFails(proc[p]) /\ ~proc[p].failed
         /\ proc[q].email = proc[p].email /\ proc[q].code = proc[p].code
         /\ proc[q].op # "" /\ proc[q].pc # "Verify_fetch"
         /\ ~proc[q].failed )
       => /\ proc[q].verification = proc[p].verification
          /\ ~Before(proc[q].verification.ExpiresAt, proc[q].checkedAt)
               => proc[q].op # "Verify" \/ proc[q].pc = "Verify_verifyUser"

C7_Witness ==
  \E p, q \in Procs :
    /\ Then(p, q) /\ Done(q)
    /\ proc[p].flow = "ResetPassword" /\ proc[q].flow = "ResetPassword"
    /\ Matched(proc[p]) /\ ~proc[p].failed
    /\ proc[p].err = ErrPassAreEqual
    /\ proc[q].email = proc[p].email /\ proc[q].code = proc[p].code
    /\ proc[q].password # proc[p].password
    /\ ~proc[q].failed
    /\ proc[q].status = "OK"

\* C8: the delete of DeleteVerification(email), unless the store fails,
\* returns success whether or not a record exists, leaves no record for the
\* email, leaves the records of the other emails and the users as they were,
\* and changes nothing at all when there was no record.
C8_DeleteIdempotent ==
  [][\A p \in Procs :
       ( /\ proc[p].pc = "DeleteVerification_delete"
         /\ proc'[p] # proc[p]
         /\ ~proc'[p].failed )
       => /\ proc'[p].pc = "done"
          /\ proc'[p].err = OK
          /\ RowsOf(verifications', proc[p].email) = {}
          /\ verifications' =
               {row \in verifications : row.email # proc[p].email}
          /\ RowsOf(verifications, proc[p].email) = {}
               => verifications' = verifications
          /\ users' = users]_vars

C8_Witness ==
  \E p, q \in Procs :
    /\ Then(p, q) /\ Done(q)
    /\ DirectCall(proc[p], "DeleteVerification") /\ proc[p].err = OK
    /\ DirectCall(proc[q], "DeleteVerification") /\ proc[q].err = OK
    /\ proc[q].email = proc[p].email
    /\ proc[p].email # ""
    /\ ~proc[p].failed /\ ~proc[q].failed
    /\ RowsOf(verifications, proc[p].email) = {}
    /\ verifications # {}

\* C9: after two concurrent StoreVerification calls for the same registered
\* email have both returned, exactly one record exists for the email and it
\* holds the code and expiry of one of the two calls.
C9_ConcurrentStoresLeaveOne ==
  \A p, q \in Procs :
    ( /\ Concurrent(p, q) /\ Done(p) /\ Done(q)
      /\ DirectCall(proc[p], "StoreVerification")
      /\ DirectCall(proc[q], "StoreVerification")
      /\ proc[p].email = proc[q].email
      /\ proc[p].email \in DOMAIN users
      /\ proc[p].err \notin {EmptyEmail, EmptyCode, EmptyExpiresAt}
      /\ proc[q].err \notin {EmptyEmail, EmptyCode, EmptyExpiresAt}
      /\ ~proc[p].failed /\ ~proc[q].failed )
    => \/ Pending(proc[p].email, proc[p].code, proc[p].expiresAt)
       \/ Pending(proc[q].email, proc[q].code, proc[q].expiresAt)

\* C10: when two concurrent Verify(email, code, true) calls with the correct
\* unexpired code have both fetched the same record, both succeed (the
\* second delete finds no row and is not an error), the user is verified and
\* no record is left.
C10_ConcurrentVerifyTolerated ==
  \A p, q \in Procs :
    ( /\ p # q /\ Done(p) /\ Done(q)
      /\ DirectCall(proc[p], "Verify") /\ DirectCall(proc[q], "Verify")
      /\ proc[p].del /\ proc[q].del
      /\ proc[p].email = proc[q].email
      /\ Matched(proc[p]) /\ Matched(proc[q])
      /\ proc[p].verification = proc[q].verification
      /\ ~proc[p].failed /\ ~proc[q].failed )
    => /\ proc[p].err = OK
       /\ proc[q].err = OK
       /\ RowsOf(verifications, proc[p].email) = {}
       /\ proc[p].email \in DOMAIN users
            => users[proc[p].email].is_verified

C10_Witness ==
  \E p, q \in Procs :
    /\ Concurrent(p, q) /\ Done(p) /\ Done(q)
    /\ DirectCall(proc[p], "Verify") /\ DirectCall(proc[q], "Verify")
    /\ proc[p].del /\ proc[q].del
    /\ proc[p].email = proc[q].email
    /\ Matched(proc[p]) /\ Matched(proc[q])
    /\ proc[p].verification = proc[q].verification
    /\ ~proc[p].failed /\ ~proc[q].failed
    /\ proc[p].err = OK /\ proc[q].err = OK
    /\ RowsOf(verifications, proc[p].email) = {}
    /\ proc[p].email \in DOMAIN users
    /\ users[proc[p].email].is_verified

\* C11: a Verify whose fetch of the record fails in the store (cancelled
\* context, infrastructure failure) returns that failure, never a domain
\* error such as VerificationNotFound or CodesDiffer.
C11_FetchFailurePropagates ==
  \A p \in Procs :
    ( /\ Done(p)
      /\ proc[p].op = "Verify"
      /\ VerifyCheck(proc[p].email, proc[p].code) = OK
      /\ proc[p].failed
      /\ ~Fetched(proc[p]) )
    => proc[p].err = ErrInfra

\* C12: in every reachable state each email has at most one pending
\* verification record.
C12_AtMostOneRecord ==
  \A e \in Emails : Cardinality(RowsOf(verifications, e)) <= 1

C12_Witness ==
  \E p, q \in Procs :
    /\ Then(p, q) /\ Done(q)
    /\ proc[p].flow = "Register" /\ proc[p].status = "OK"
    /\ proc[q].flow = "CreateVerification"
    /\ proc[q].email = proc[p].email
    /\ proc[q].op = "StoreVerification"
    /\ proc[q].err = ErrConstraintPrimaryKey
    /\ Cardinality(RowsOf(verifications, proc[q].email)) = 1

\* C13: StoreVerification for a non-empty email that no user has fails with
\* UserNotFound, the CreateVerification handler answers NotFound, and no
\* record is created.
C13_UnknownEmailNotFound ==
  \A p \in Procs :
    ( /\ Done(p) /\ Alone(p)
      /\ proc[p].flow = "CreateVerification"
      /\ proc[p].op # ""
      /\ proc[p].email \notin DOMAIN users
      /\ ~proc[p].failed )
    => /\ proc[p].op = "StoreVerification"
       /\ proc[p].err = ErrUserNotFound
       /\ proc[p].status = "NotFound"
       /\ ~Pending(proc[p].email, proc[p].code, proc[p].expiresAt)

\* C14: when RegisterNewUser succeeds and the StoreVerification that follows
\* it in Register fails, the user stays registered and unverified with no
\* pending record, and a later CreateVerification for the email, with the
\* store and the mail working, succeeds and leaves the pending record with
\* its newly generated code.
C14_FailedStoreKeepsUser ==
  /\ \A p \in Procs :
       ( /\ Done(p) /\ Alone(p)
         /\ proc[p].flow = "Register"
         /\ proc[p].op = "StoreVerification"
         /\ proc[p].err # OK )
       => /\ proc[p].email \in DOMAIN users
          /\ ~users[proc[p].email].is_verified
          /\ RowsOf(verifications, proc[p].email) = {}
  /\ \A p, q \in Procs :
       ( /\ Then(p, q) /\ Done(q)
         /\ proc[p].flow = "Register"
         /\ proc[p].op = "StoreVerification"
         /\ proc[p].err # OK
         /\ proc[q].flow = "CreateVerification"
         /\ proc[q].email = proc[p].email
         /\ ~proc[q].failed
         /\ proc[q].err # ErrDelivery )
       => /\ proc[q].status = "OK"
          /\ Pending(proc[q].email, proc[q].code, proc[q].expiresAt)

\* C15: the insert of a Register request for an email that is taken fails
\* with UserExists, the handler answers AlreadyExists at once (no
\* verification is stored, no email is sent) and the step changes neither
\* the users nor the verifications.
C15_TakenEmailChangesNothing ==
  [][\A p \in Procs :
       ( /\ proc[p].pc = "RegisterNewUser_save"
         /\ proc[p].flow = "Register"
         /\ proc'[p] # proc[p]
         /\ ~proc'[p].failed
         /\ proc[p].email \in DOMAIN users )
       => /\ proc'[p].pc = "done"
          /\ proc'[p].op = "RegisterNewUser"
          /\ proc'[p].err = ErrUserExists
          /\ proc'[p].status = "AlreadyExists"
          /\ users' = users
          /\ verifications' = verifications]_vars

C15_Witness ==
  \E p \in Procs :
    /\ Done(p) /\ Alone(p)
    /\ proc[p].flow = "Register"
    /\ proc[p].op = "RegisterNewUser"
    /\ proc[p].err = ErrUserExists
    /\ proc[p].status = "AlreadyExists"
    /\ proc[p].email \in DOMAIN users
    /\ users[proc[p].email].pass_hash # Hash(proc[p].password)
    /\ RowsOf(verifications, proc[p].email) = {}

\* C16: the value a successful Verify returns is the decimal string of the
\* id of the user that has the email.
C16_VerifyReturnsUserId ==
  \A p \in Procs :
    ( /\ Done(p)
      /\ DirectCall(proc[p], "Verify")
      /\ Matched(proc[p])
      /\ proc[p].err = OK
      /\ proc[p].email \in DOMAIN users )
    => proc[p].result = Sprintf(users[proc[p].email].id)

\* C17: after RegisterNewUser(email, password) has succeeded, a Login with
\* that email, an existing app id and the same password succeeds and its
\* token carries the email; with any other password it fails with
\* InvalidCredentials.
C17_LoginAfterRegister ==
  \A p, q \in Procs :
    ( /\ Then(p, q) /\ Done(q)
      /\ DirectCall(proc[p], "RegisterNewUser") /\ proc[p].err = OK
      /\ proc[q].flow = "Login" /\ proc[q].op = "Login"
      /\ proc[q].email = proc[p].email
      /\ proc[q].appID \in DOMAIN Apps
      /\ ~proc[q].failed )
    => /\ proc[q].password = proc[p].password
            => /\ proc[q].err = OK
               /\ proc[q].status = "OK"
               /\ proc[q].token.email = proc[p].email
       /\ proc[q].password # proc[p].password
            => /\ proc[q].err = ErrInvalidCredentials
               /\ proc[q].token = ZeroToken

C17_Witness ==
  \E p, q \in Procs :
    /\ Then(p, q) /\ Done(q)
    /\ DirectCall(proc[p], "RegisterNewUser") /\ proc[p].err = OK
    /\ proc[q].flow = "Login"
    /\ proc[q].email = proc[p].email
    /\ proc[q].password = proc[p].password
    /\ ~proc[q].failed
    /\ proc[q].status = "OK"
    /\ proc[q].token.email = proc[p].email
    /\ proc[q].token.uid = users[proc[p].email].id

\* request r took the record of its email to a terminal state: consumed and
\* deleted, expired and deleted, or deleted
Terminal(r) ==
  /\ r.pc = "done"
  /\ ~r.failed
  /\ \/ DirectCall(r, "Verify") /\ r.del /\ r.err = OK
     \/ r.flow = "ResetPassword" /\ r.status = "OK"
     \/ r.op = "Verify" /\ r.err = ErrVerificationExpired
     \/ DirectCall(r, "DeleteVerification") /\ r.err = OK

\* C18: a request that takes the record of an email to a terminal state
\* leaves no record for the email; a StoreVerification for that (registered)
\* email that follows succeeds and leaves the pending record with its code
\* and expiry; and a Verify that follows a successful StoreVerification with
\* the stored code fetches that record and, while it has not expired,
\* succeeds.
C18_TerminalIsNoRecord ==
  /\ \A p \in Procs :
       (Terminal(proc[p]) /\ Alone(p))
       => RowsOf(verifications, proc[p].email) = {}
  /\ \A p, q \in Procs :
       ( /\ Then(p, q) /\ Done(q)
         /\ Terminal(proc[p])
         /\ DirectCall(proc[q], "StoreVerification")
         /\ proc[q].email = proc[p].email
         /\ proc[q].email \in DOMAIN users
         /\ StoreVerificationCheck(proc[q].email, proc[q].code,
                                   proc[q].expiresAt) = OK
         /\ ~proc[q].failed )
       => /\ proc[q].err = OK
          /\ Pending(proc[q].email, proc[q].code, proc[q].expiresAt)
  /\ \A p, q \in Procs :
       ( /\ Then(p, q) /\ Done(q)
         /\ DirectCall(proc[p], "StoreVerification") /\ proc[p].err = OK
         /\ DirectCall(proc[q], "Verify")
         /\ proc[q].email = proc[p].email /\ proc[q].code = proc[p].code
         /\ ~proc[q].failed )
       => /\ proc[q].verification =
               [Email |-> proc[p].email, Code |-> proc[p].code,
                ExpiresAt |-> proc[p].expiresAt]
          /\ ~Before(proc[p].expiresAt, proc[q].checkedAt)
               => proc[q].err = OK

C18_Witness ==
  \E p, q \in Procs :
    /\ Then(p, q) /\ Done(q)
    /\ Terminal(proc[p])
    /\ DirectCall(proc[p], "Verify") /\ Matched(proc[p])
    /\ DirectCall(proc[q], "StoreVerification")
    /\ proc[q].email = proc[p].email
    /\ proc[q].code # proc[p].code
    /\ ~proc[q].failed
    /\ proc[q].err = OK
    /\ Pending(proc[q].email, proc[q].code, proc[q].expiresAt)

\* C19: a direct call is validated before any store call, in this order:
\* StoreVerification returns EmptyEmail for an empty email, else EmptyCode
\* for an empty code, else EmptyExpiresAt for a zero expiry; Verify returns
\* EmptyEmail, else EmptyCode; DeleteVerification returns EmptyEmail. The
\* rejected call ends there and no table changes.
C19_ValidationOrder ==
  [][\A p \in Procs :
       (proc[p].pc = "idle" /\ proc'[p].flow = "Direct")
       => LET r == proc'[p]
              Rejected(err) == /\ r.pc = "done"
                               /\ r.err = err
                               /\ users' = users
                               /\ verifications' = verifications
          IN /\ r.op = "StoreVerification"
                  => /\ r.email = "" => Rejected(EmptyEmail)
                     /\ (r.email # "" /\ r.code = "") => Rejected(EmptyCode)
                     /\ (r.email # "" /\ r.code # "" /\ IsZero(r.expiresAt))
                          => Rejected(EmptyExpiresAt)
             /\ r.op = "Verify"
                  => /\ r.email = "" => Rejected(EmptyEmail)
                     /\ (r.email # "" /\ r.code = "") => Rejected(EmptyCode)
             /\ r.op = "DeleteVerification"
                  => (r.email = "" => Rejected(EmptyEmail))]_vars

C19_Witness ==
  \E p, q \in Procs :
    /\ Done(p) /\ Done(q)
    /\ DirectCall(proc[p], "StoreVerification")
    /\ proc[p].email = "" /\ proc[p].code = "" /\ IsZero(proc[p].expiresAt)
    /\ proc[p].err = EmptyEmail
    /\ DirectCall(proc[q], "StoreVerification")
    /\ proc[q].email # "" /\ proc[q].code = "" /\ IsZero(proc[q].expiresAt)
    /\ proc[q].err = EmptyCode

\* C20: when Verify finds an expired record with the supplied code and the
\* cleanup delete fails, Verify still returns VerificationExpired, the user
\* is not marked verified and the record stays.
C20_CleanupFailureStillExpired ==
  \A p \in Procs :
    ( /\ Done(p)
      /\ proc[p].op = "Verify"
      /\ Fetched(proc[p])
      /\ proc[p].verification.Code = proc[p].code
      /\ Before(proc[p].verification.ExpiresAt, proc[p].checkedAt)
      /\ proc[p].failed )
    => /\ proc[p].err = ErrVerificationExpired
       /\ Alone(p)
            => /\ Pending(proc[p].email, proc[p].verification.Code,
                          proc[p].verification.ExpiresAt)
               /\ proc[p].email \in DOMAIN users
                    => ~users[proc[p].email].is_verified

C20_Witness ==
  \E p \in Procs :
    /\ Done(p) /\ Alone(p)
    /\ DirectCall(proc[p], "Verify")
    /\ Fetched(proc[p])
    /\ proc[p].verification.Code = proc[p].code
    /\ Before(proc[p].verification.ExpiresAt, proc[p].checkedAt)
    /\ proc[p].failed
    /\ proc[p].err = ErrVerificationExpired
    /\ RowsOf(verifications, proc[p].email) # {}
    /\ proc[p].email \in DOMAIN users
    /\ ~users[proc[p].email].is_verified

\* C21: a step makes a user verified only as part of a request whose Verify
\* read a record of that user's email with exactly the supplied code and an
\* expiry not before the time of the check; a Verify that met another
\* code, an expired record or no record never reaches the update.
C21_VerifiedOnlyAfterMatch ==
  [][/\ \A e \in DOMAIN users :
          (~users[e].is_verified /\ users'[e].is_verified)
          => \E p \in Procs :
               /\ proc[p].pc \in {"Verify_verifyUser", "UpdateUser_update"}
               /\ proc'[p] # proc[p]
               /\ proc[p].email = e
               /\ proc[p].verification.Email = e
               /\ Matched(proc[p])
     /\ \A p \in Procs :
          (proc[p].pc = "Verify_fetch" /\ proc'[p].pc = "Verify_verifyUser")
          => \E row \in RowsOf(verifications, proc[p].email) :
               /\ row.code = proc[p].code
               /\ ~Before(row.expiresAt, now)]_vars

C21_Witness ==
  \E p \in Procs :
    /\ Done(p) /\ Alone(p)
    /\ DirectCall(proc[p], "Verify")
    /\ ~proc[p].del
    /\ Matched(proc[p])
    /\ proc[p].err = OK
    /\ proc[p].email \in DOMAIN users
    /\ users[proc[p].email].is_verified

\* C22: of the ResetPassword requests that present the code of one stored
\* record of an email, at most one gets past UpdateUser.
C22_OneCodeOneChange ==
  \A p, q \in Procs :
    ( /\ p # q
      /\ proc[p].flow = "ResetPassword" /\ proc[q].flow = "ResetPassword"
      /\ proc[p].email = proc[q].email
      /\ proc[p].code = proc[q].code
      /\ Matched(proc[p]) /\ Matched(proc[q])
      /\ proc[p].verification = proc[q].verification )
    => ~(proc[p].op = "DeleteVerification" /\ proc[q].op = "DeleteVerification")

\* C24: a ResetPassword request that is answered with an error leaves the
\* user as it was: the stored password hash and the verified flag.
C24_FailedResetChangesNothing ==
  \A p \in Procs :
    ( /\ Done(p) /\ Alone(p)
      /\ proc[p].flow = "ResetPassword"
      /\ proc[p].status # "OK" )
    => users \in UserTables

\* C23: the delete at the end of a successful Verify(email, code, true) and
\* the DeleteVerification at the end of ResetPassword remove only the record
\* the request matched: a record of the email with another code, stored by
\* other requests since the request read its record, is still there after
\* the delete.
C23_DeleteRemovesOnlyMatched ==
  [][\A p \in Procs :
       ( /\ proc[p].pc \in {"Verify_delete", "DeleteVerification_delete"}
         /\ proc'[p] # proc[p]
         /\ Matched(proc[p]) )
       => \A row \in RowsOf(verifications, proc[p].email) :
            row.code # proc[p].verification.Code => row \in verifications']_vars

\* a CreateVerification request has been answered with success
Reissued ==
  \E p \in Procs :
    /\ Done(p)
    /\ proc[p].flow = "CreateVerification"
    /\ proc[p].status = "OK"

\* a registered email has a pending record
Blocked ==
  \E e \in RequestEmails :
    e \in DOMAIN users /\ RowsOf(verifications, e) # {}

\* C25: whenever a registered user has a pending record whose code they do
\* not know, and they keep sending CreateVerification and VerifyMail
\* requests while the store and the mail work, a CreateVerification is
\* eventually answered with success.
C25_ReissueEventually == Blocked ~> Reissued

====
